---- MODULE Spec2Model ----
(***************************************************************************)
(* The amqp connection wrapper of wabbit: Conn.NotifyClose (the bridge     *)
(* from the broker library's close stream to a channel of wabbit.Error)    *)
(* and Conn.AutoRedial (the redial loop).                                  *)
(*                                                                         *)
(* Goroutines are modelled by a program counter each; a send on an         *)
(* unbuffered channel and the matching receive are one step (rendezvous). *)
(* The broker library (the native close stream, the outcome of a dial)    *)
(* and the caller (who may or may not receive from outChan and done) are   *)
(* the environment.                                                        *)
(***************************************************************************)
EXTENDS Integers, Sequences, FiniteSets

\* ---------------------------------------------------------------- bounds
\* AutoRedial invocations (redial cycles) of one behaviour.
MaxInst == 2
\* Failed reconnect attempts of the first cycle (long enough for the rollover).
MaxFails == 63
\* Failed reconnect attempts of each later cycle.
MaxRefails == 1
\* The longest short streak after which a reconnect may succeed.
MaxShort == 3
\* Events the native close stream carries when NotifyClose is called directly.
MaxEvents == 2
\* Capacity of the channel a caller hands to NotifyClose directly.
MaxCap == 1

\* ------------------------------------------------------ program constants
\* `if conn.attempts > 60`
ResetAbove == 60
\* attempts is a uint8
Uint8 == 256

\* ---------------------------------------------------------------- values
\* wabbit.Error(nil): the graceful-close sentinel
NilError == [kind |-> "nil"]
\* (*amqp.Error)(nil)
NilAmqp == [kind |-> "nilamqp"]
\* error(nil) returned by dialFn
NoError == [kind |-> "ok"]
\* the native errors the broker library is driven with
AmqpErrors ==
  { [kind |-> "amqp.Error", Code |-> 320, Reason |-> "CONNECTION_FORCED",
     Server |-> TRUE, Recover |-> FALSE],
    [kind |-> "amqp.Error", Code |-> 504, Reason |-> "CHANNEL_ERROR",
     Server |-> FALSE, Recover |-> TRUE] }
NativeEvents == AmqpErrors \cup {NilAmqp}
\* the errors a failed dial returns
DialErrors == { [kind |-> "net.OpError", msg |-> "dial tcp: connection refused"] }
\* conn.Connection == nil
NilConn == [id |-> 0, live |-> FALSE]

\* index of the subscription made by a direct call of NotifyClose
Direct == 0
Insts == 1..MaxInst
Subs == {Direct} \cup Insts

VARIABLES
  attempts,   \* conn.attempts
  handle,     \* conn.Connection
  ndials,     \* invocations of conn.dialFn so far (names the handles)
  sub,        \* per NotifyClose call: native stream, listener goroutine, channel c
  eng,        \* per AutoRedial call: the goroutine of lines 116-149
  caller      \* what the caller has received so far

vars == <<attempts, handle, ndials, sub, eng, caller>>

\* ------------------------------------------------------------ NotifyClose
\* utils.NewError(code, reason, server, recover)
NewError(code, reason, server, recover) ==
  [kind |-> "utils.Error", code |-> code, reason |-> reason,
   server |-> server, recover |-> recover]

\* Translate with the server and recover flags passed in each other's place.
TranslateSwapped(err) ==
  IF err # NilAmqp
    THEN NewError(err.Code, err.Reason, err.Recover, err.Server)
    ELSE NilError

\* the body of the range loop: lines 81-91
Translate(err) ==
  IF err # NilAmqp
    THEN NewError(err.Code, err.Reason, err.Server, err.Recover)
    ELSE NilError

NoSub ==
  [on |-> FALSE, handle |-> 0, cap |-> 0,
   natBuf |-> <<>>, natSent |-> 0, natClosed |-> FALSE, sent |-> <<>>,
   lpc |-> "none", ne |-> NilError,
   cBuf |-> <<>>, cClosed |-> FALSE,
   read |-> <<>>, fwd |-> <<>>, closes |-> 0]

\* conn.NotifyClose(c) with cap(c) = cap on the handle h: the native channel
\* is made with the same capacity, the listener goroutine starts at the range.
NotifyClose(h, cap) ==
  [NoSub EXCEPT !.on = TRUE, !.handle = h.id, !.cap = cap, !.lpc = "range"]

\* The broker library sends at most one error on a close stream before it
\* closes it; a directly subscribed stream is driven with up to MaxEvents.
EventLimit(s) == IF s = Direct THEN MaxEvents ELSE 1

\* `for err := range amqpErr` has read err: translate it, go to `c <- ne`
ListenerTake(r, e) ==
  [r EXCEPT !.read = Append(@, e), !.ne = Translate(e), !.lpc = "send"]

\* `c <- ne` completed: back to the range
ListenerSent(r) ==
  [r EXCEPT !.fwd = Append(@, r.ne), !.lpc = "range"]

\* The library sends e on a buffered native channel that has room.
NativeSend(s, e) ==
  /\ sub[s].on /\ ~sub[s].natClosed
  /\ sub[s].natSent < EventLimit(s)
  /\ Len(sub[s].natBuf) < sub[s].cap
  /\ sub' = [sub EXCEPT ![s].natBuf = Append(@, e), ![s].natSent = @ + 1,
                        ![s].sent = Append(@, e)]
  /\ UNCHANGED <<attempts, handle, ndials, eng, caller>>

\* The library closes the native channel.
NativeClose(s) ==
  /\ sub[s].on /\ ~sub[s].natClosed
  /\ sub' = [sub EXCEPT ![s].natClosed = TRUE]
  /\ UNCHANGED <<attempts, handle, ndials, eng, caller>>

\* The range receives a buffered event.
ListenerRecv(s) ==
  /\ sub[s].lpc = "range"
  /\ Len(sub[s].natBuf) > 0
  /\ sub' = [sub EXCEPT ![s] =
               ListenerTake([@ EXCEPT !.natBuf = Tail(@)], Head(sub[s].natBuf))]
  /\ UNCHANGED <<attempts, handle, ndials, eng, caller>>

\* ListenerMeet for a library that may send up to MaxEvents events on the
\* stream of any subscription before it closes it.
ListenerMeetMany(s, e) ==
  /\ sub[s].lpc = "range"
  /\ sub[s].cap = 0
  /\ ~sub[s].natClosed
  /\ sub[s].natSent < MaxEvents
  /\ sub' = [sub EXCEPT ![s] =
               ListenerTake([@ EXCEPT !.natSent = @ + 1, !.sent = Append(@, e)], e)]
  /\ UNCHANGED <<attempts, handle, ndials, eng, caller>>

\* The range receives e from the library's blocked send (unbuffered channel).
ListenerMeet(s, e) ==
  /\ sub[s].lpc = "range"
  /\ sub[s].cap = 0
  /\ ~sub[s].natClosed
  /\ sub[s].natSent < EventLimit(s)
  /\ sub' = [sub EXCEPT ![s] =
               ListenerTake([@ EXCEPT !.natSent = @ + 1, !.sent = Append(@, e)], e)]
  /\ UNCHANGED <<attempts, handle, ndials, eng, caller>>

\* `c <- ne` into a buffered c that has room.
ListenerSend(s) ==
  /\ sub[s].lpc = "send"
  /\ Len(sub[s].cBuf) < sub[s].cap
  /\ sub' = [sub EXCEPT ![s] = ListenerSent([@ EXCEPT !.cBuf = Append(@, sub[s].ne)])]
  /\ UNCHANGED <<attempts, handle, ndials, eng, caller>>

\* ListenerClose that closes c as soon as the native channel is closed,
\* whatever is still buffered in it.
ListenerCloseEarly(s) ==
  /\ sub[s].lpc = "range"
  /\ sub[s].natClosed
  /\ sub' = [sub EXCEPT ![s].cClosed = TRUE, ![s].closes = @ + 1, ![s].lpc = "done"]
  /\ UNCHANGED <<attempts, handle, ndials, eng, caller>>

\* The range ends (native channel closed and drained): close(c).
ListenerClose(s) ==
  /\ sub[s].lpc = "range"
  /\ sub[s].natClosed /\ Len(sub[s].natBuf) = 0
  /\ sub' = [sub EXCEPT ![s].cClosed = TRUE, ![s].closes = @ + 1, ![s].lpc = "done"]
  /\ UNCHANGED <<attempts, handle, ndials, eng, caller>>

\* What a receive from c can yield now: a buffered value, the value of the
\* listener's blocked send (unbuffered c), or the zero value of a closed c.
ChanRecv(r) ==
  (IF Len(r.cBuf) > 0
     THEN {[val |-> Head(r.cBuf), ok |-> TRUE, next |-> [r EXCEPT !.cBuf = Tail(@)]]}
     ELSE {})
  \cup
  (IF r.cap = 0 /\ r.lpc = "send"
     THEN {[val |-> r.ne, ok |-> TRUE, next |-> ListenerSent(r)]}
     ELSE {})
  \cup
  (IF r.cClosed /\ Len(r.cBuf) = 0
     THEN {[val |-> NilError, ok |-> FALSE, next |-> r]}
     ELSE {})

\* ------------------------------------------------------------- AutoRedial
NoEngine ==
  [pc |-> "none", err |-> NilError, connErr |-> NoError,
   emits |-> 0, outs |-> {}, fails |-> 0, dials |-> 0, oks |-> 0,
   waits |-> <<>>, dones |-> 0, att0 |-> 0]

\* conn.AutoRedial(outChan, done): subscribe with the unbuffered errChan2 on
\* the current handle and start the goroutine, which blocks at the select.
AutoRedial ==
  [s |-> NotifyClose(handle, 0),
   e |-> [NoEngine EXCEPT !.pc = "watch", !.att0 = attempts]]

\* conn.dialFn(): what the broker library's Dial can return. A failed dial
\* yields a nil connection, a failed handshake a connection that is not open.
dialFn ==
  {[conn |-> [id |-> ndials + 1, live |-> TRUE], err |-> NoError]}
  \cup {[conn |-> c, err |-> e] :
          c \in {NilConn, [id |-> ndials + 1, live |-> FALSE]}, e \in DialErrors}

\* The environment's dial outcomes are bounded: a cycle fails at most
\* MaxFails (first cycle) or MaxRefails (later cycles) times, and a reconnect
\* succeeds after a streak of at most MaxShort or after one that ends at the reset
\* boundary (the counter is ResetAbove, or has just gone above it).
MayFail(i) == eng[i].fails < (IF i = 1 THEN MaxFails ELSE MaxRefails)
MaySucceed(i) ==
  /\ i < MaxInst
  /\ (eng[i].fails <= MaxShort \/ eng[i].fails \in {ResetAbove, ResetAbove + 1})

\* Watch without the `amqpErr == nil` return.
WatchNoNilCheck(i) ==
  /\ eng[i].pc = "watch"
  /\ \E r \in ChanRecv(sub[i]) :
       /\ sub' = [sub EXCEPT ![i] = r.next]
       /\ eng' = [eng EXCEPT ![i].err = r.val, ![i].pc = "emit"]
  /\ UNCHANGED <<attempts, handle, ndials, caller>>

\* line 120-126: the select receives the first value of errChan
Watch(i) ==
  /\ eng[i].pc = "watch"
  /\ \E r \in ChanRecv(sub[i]) :
       /\ sub' = [sub EXCEPT ![i] = r.next]
       /\ eng' = [eng EXCEPT ![i].err = r.val,
                             ![i].pc = IF r.val = NilError THEN "exit" ELSE "emit"]
  /\ UNCHANGED <<attempts, handle, ndials, caller>>

\* Emit as a send that does not wait for the caller (the value is dropped).
EmitNonBlocking(i) ==
  /\ eng[i].pc = "emit"
  /\ eng' = [eng EXCEPT ![i].pc = "backoff"]
  /\ UNCHANGED <<attempts, handle, ndials, sub, caller>>

\* Emit that waits until no earlier task is still blocked at its send on done.
EmitAfterDone(i) ==
  /\ eng[i].pc = "emit"
  /\ \A j \in Insts : j < i => eng[j].pc # "signal"
  /\ eng' = [eng EXCEPT ![i].emits = @ + 1,
                        ![i].outs = @ \cup {eng[i].err},
                        ![i].pc = "backoff"]
  /\ UNCHANGED <<attempts, handle, ndials, sub, caller>>

\* line 128: `outChan <- err`, taken by the caller's receive
Emit(i) ==
  /\ eng[i].pc = "emit"
  /\ eng' = [eng EXCEPT ![i].emits = @ + 1,
                        ![i].outs = @ \cup {eng[i].err},
                        ![i].pc = "backoff"]
  /\ UNCHANGED <<attempts, handle, ndials, sub, caller>>

\* Backoff without the reset of the counter.
BackoffNoReset(i) ==
  /\ eng[i].pc = "backoff"
  /\ attempts' = attempts
  /\ eng' = [eng EXCEPT ![i].waits = Append(@, attempts'), ![i].pc = "dial"]
  /\ UNCHANGED <<handle, ndials, sub, caller>>

\* Backoff that resets the counter as soon as it has reached ResetAbove.
BackoffResetAtSixty(i) ==
  /\ eng[i].pc = "backoff"
  /\ attempts' = IF attempts >= ResetAbove THEN 0 ELSE attempts
  /\ eng' = [eng EXCEPT ![i].waits = Append(@, attempts'), ![i].pc = "dial"]
  /\ UNCHANGED <<handle, ndials, sub, caller>>

\* lines 130-135: the reset and the sleep
Backoff(i) ==
  /\ eng[i].pc = "backoff"
  /\ attempts' = IF attempts > ResetAbove THEN 0 ELSE attempts
  /\ eng' = [eng EXCEPT ![i].waits = Append(@, attempts'), ![i].pc = "dial"]
  /\ UNCHANGED <<handle, ndials, sub, caller>>

\* Attempt whose failure branch jumps behind the emission (no re-emission).
AttemptNoReemit(i) ==
  /\ eng[i].pc = "dial"
  /\ \E d \in dialFn :
       /\ IF d.err # NoError THEN MayFail(i) ELSE MaySucceed(i)
       /\ handle' = d.conn
       /\ ndials' = ndials + 1
       /\ IF d.err # NoError
            THEN /\ attempts' = (attempts + 1) % Uint8
                 /\ eng' = [eng EXCEPT ![i].connErr = d.err,
                                       ![i].dials = @ + 1,
                                       ![i].fails = @ + 1,
                                       ![i].pc = "backoff"]
            ELSE /\ attempts' = attempts
                 /\ eng' = [eng EXCEPT ![i].connErr = d.err,
                                       ![i].dials = @ + 1,
                                       ![i].oks = @ + 1,
                                       ![i].pc = "rearm"]
  /\ UNCHANGED <<sub, caller>>

\* Attempt whose failure branch refreshes err from the failed dial.
AttemptRefreshErr(i) ==
  /\ eng[i].pc = "dial"
  /\ \E d \in dialFn :
       /\ IF d.err # NoError THEN MayFail(i) ELSE MaySucceed(i)
       /\ handle' = d.conn
       /\ ndials' = ndials + 1
       /\ IF d.err # NoError
            THEN /\ attempts' = (attempts + 1) % Uint8
                 /\ eng' = [eng EXCEPT ![i].connErr = d.err,
                                       ![i].err = d.err,
                                       ![i].dials = @ + 1,
                                       ![i].fails = @ + 1,
                                       ![i].pc = "emit"]
            ELSE /\ attempts' = attempts
                 /\ eng' = [eng EXCEPT ![i].connErr = d.err,
                                       ![i].dials = @ + 1,
                                       ![i].oks = @ + 1,
                                       ![i].pc = "rearm"]
  /\ UNCHANGED <<sub, caller>>

\* Attempt that gives up (returns) after its second failure.
AttemptGivesUp(i) ==
  /\ eng[i].pc = "dial"
  /\ \E d \in dialFn :
       /\ IF d.err # NoError THEN MayFail(i) ELSE MaySucceed(i)
       /\ handle' = d.conn
       /\ ndials' = ndials + 1
       /\ IF d.err # NoError
            THEN /\ attempts' = (attempts + 1) % Uint8
                 /\ eng' = [eng EXCEPT ![i].connErr = d.err,
                                       ![i].dials = @ + 1,
                                       ![i].fails = @ + 1,
                                       ![i].pc = IF eng[i].fails >= 1
                                                   THEN "exit" ELSE "emit"]
            ELSE /\ attempts' = attempts
                 /\ eng' = [eng EXCEPT ![i].connErr = d.err,
                                       ![i].dials = @ + 1,
                                       ![i].oks = @ + 1,
                                       ![i].pc = "rearm"]
  /\ UNCHANGED <<sub, caller>>

\* Attempt whose failure branch does not count the failure in conn.attempts.
AttemptNoCount(i) ==
  /\ eng[i].pc = "dial"
  /\ \E d \in dialFn :
       /\ IF d.err # NoError THEN MayFail(i) ELSE MaySucceed(i)
       /\ handle' = d.conn
       /\ ndials' = ndials + 1
       /\ attempts' = attempts
       /\ IF d.err # NoError
            THEN eng' = [eng EXCEPT ![i].connErr = d.err,
                                    ![i].dials = @ + 1,
                                    ![i].fails = @ + 1,
                                    ![i].pc = "emit"]
            ELSE eng' = [eng EXCEPT ![i].connErr = d.err,
                                    ![i].dials = @ + 1,
                                    ![i].oks = @ + 1,
                                    ![i].pc = "rearm"]
  /\ UNCHANGED <<sub, caller>>

\* lines 137-142: conn.dialFn() and the failure branch
Attempt(i) ==
  /\ eng[i].pc = "dial"
  /\ \E d \in dialFn :
       /\ IF d.err # NoError THEN MayFail(i) ELSE MaySucceed(i)
       /\ handle' = d.conn
       /\ ndials' = ndials + 1
       /\ IF d.err # NoError
            THEN /\ attempts' = (attempts + 1) % Uint8
                 /\ eng' = [eng EXCEPT ![i].connErr = d.err,
                                       ![i].dials = @ + 1,
                                       ![i].fails = @ + 1,
                                       ![i].pc = "emit"]
            ELSE /\ attempts' = attempts
                 /\ eng' = [eng EXCEPT ![i].connErr = d.err,
                                       ![i].dials = @ + 1,
                                       ![i].oks = @ + 1,
                                       ![i].pc = "rearm"]
  /\ UNCHANGED <<sub, caller>>

\* Rearm that signals without arming a watch on the new connection.
RearmSkipped(i) ==
  /\ eng[i].pc = "rearm"
  /\ i + 1 \in Insts
  /\ eng' = [eng EXCEPT ![i].pc = "signal"]
  /\ UNCHANGED <<attempts, handle, ndials, sub, caller>>

\* Rearm after which the task goes back to its own send on outChan.
RearmStaysInLoop(i) ==
  /\ eng[i].pc = "rearm"
  /\ i + 1 \in Insts
  /\ sub' = [sub EXCEPT ![i + 1] = AutoRedial.s]
  /\ eng' = [eng EXCEPT ![i + 1] = AutoRedial.e, ![i].pc = "emit"]
  /\ UNCHANGED <<attempts, handle, ndials, caller>>

\* Rearm that zeroes the counter for the new cycle.
RearmResetCounter(i) ==
  /\ eng[i].pc = "rearm"
  /\ i + 1 \in Insts
  /\ attempts' = 0
  /\ sub' = [sub EXCEPT ![i + 1] = AutoRedial.s]
  /\ eng' = [eng EXCEPT ![i + 1] = [AutoRedial.e EXCEPT !.att0 = 0],
                        ![i].pc = "signal"]
  /\ UNCHANGED <<handle, ndials, caller>>

\* Rearm that runs the new watch in the task itself: the task goes on to its
\* send on done only once the new subscription has delivered its first value.
RearmInline(i) ==
  /\ eng[i].pc = "rearm"
  /\ i + 1 \in Insts
  /\ \/ /\ eng[i + 1].pc = "none"
        /\ sub' = [sub EXCEPT ![i + 1] = AutoRedial.s]
        /\ eng' = [eng EXCEPT ![i + 1] = AutoRedial.e]
     \/ /\ eng[i + 1].pc \notin {"none", "watch"}
        /\ sub' = sub
        /\ eng' = [eng EXCEPT ![i].pc = "signal"]
  /\ UNCHANGED <<attempts, handle, ndials, caller>>

\* line 145: conn.AutoRedial(outChan, done) on the new connection
Rearm(i) ==
  /\ eng[i].pc = "rearm"
  /\ i + 1 \in Insts
  /\ sub' = [sub EXCEPT ![i + 1] = AutoRedial.s]
  /\ eng' = [eng EXCEPT ![i + 1] = AutoRedial.e, ![i].pc = "signal"]
  /\ UNCHANGED <<attempts, handle, ndials, caller>>

\* Signal that sends on done and loops back to send again.
SignalAgain(i) ==
  /\ eng[i].pc = "signal"
  /\ eng[i].dones < 2
  /\ caller' = [caller EXCEPT !.done = Append(@, TRUE)]
  /\ eng' = [eng EXCEPT ![i].dones = @ + 1]
  /\ UNCHANGED <<attempts, handle, ndials, sub>>

\* lines 146-147: `done <- true`, taken by the caller's receive, and return
Signal(i) ==
  /\ eng[i].pc = "signal"
  /\ caller' = [caller EXCEPT !.done = Append(@, TRUE)]
  /\ eng' = [eng EXCEPT ![i].dones = @ + 1, ![i].pc = "exit"]
  /\ UNCHANGED <<attempts, handle, ndials, sub>>

\* ----------------------------------------------------------------- caller
Fresh == eng[1].pc = "none" /\ ~sub[Direct].on

\* The caller calls conn.AutoRedial(outChan, done) on the dialed connection.
CallAutoRedial ==
  /\ Fresh
  /\ sub' = [sub EXCEPT ![1] = AutoRedial.s]
  /\ eng' = [eng EXCEPT ![1] = AutoRedial.e]
  /\ UNCHANGED <<attempts, handle, ndials, caller>>

\* The caller calls conn.NotifyClose(c) itself, with a channel of capacity cap.
CallNotifyClose(cap) ==
  /\ Fresh
  /\ sub' = [sub EXCEPT ![Direct] = NotifyClose(handle, cap)]
  /\ caller' = [caller EXCEPT !.ret = Direct]
  /\ UNCHANGED <<attempts, handle, ndials, eng>>

\* The caller receives from the channel NotifyClose returned, until it is closed.
CallerRecv ==
  /\ sub[Direct].on
  /\ ~caller.sawClose
  /\ \E r \in ChanRecv(sub[Direct]) :
       /\ sub' = [sub EXCEPT ![Direct] = r.next]
       /\ caller' = IF r.ok THEN [caller EXCEPT !.got = Append(@, r.val)]
                            ELSE [caller EXCEPT !.sawClose = TRUE]
  /\ UNCHANGED <<attempts, handle, ndials, eng>>

\* ------------------------------------------------------------------ spec
\* After Dial: doDial stored dialFn and the first dial succeeded.
Init ==
  /\ attempts = 0
  /\ handle = [id |-> 1, live |-> TRUE]
  /\ ndials = 1
  /\ sub = [s \in Subs |-> NoSub]
  /\ eng = [i \in Insts |-> NoEngine]
  /\ caller = [done |-> <<>>, got |-> <<>>, sawClose |-> FALSE, ret |-> -1]

Next ==
  \/ CallAutoRedial
  \/ \E cap \in 0..MaxCap : CallNotifyClose(cap)
  \/ CallerRecv
  \/ \E s \in Subs, e \in NativeEvents : NativeSend(s, e)
  \/ \E s \in Subs : NativeClose(s)
  \/ \E s \in Subs : ListenerRecv(s)
  \/ \E s \in Subs, e \in NativeEvents : ListenerMeet(s, e)
  \/ \E s \in Subs : ListenerSend(s)
  \/ \E s \in Subs : ListenerClose(s)
  \/ \E i \in Insts : Watch(i)
  \/ \E i \in Insts : Emit(i)
  \/ \E i \in Insts : Backoff(i)
  \/ \E i \in Insts : Attempt(i)
  \/ \E i \in Insts : Rearm(i)
  \/ \E i \in Insts : Signal(i)

Spec == Init /\ [][Next]_vars

\* The goroutines started by `go func()` (lines 79 and 116) are scheduled: a
\* step of theirs that stays possible is taken. That covers the listener's
\* steps and the engine's steps that wait for nobody but the listener; the
\* sends on outChan and done wait for the caller and are not covered. A
\* caller that subscribed directly keeps receiving from its channel.
Fairness ==
  /\ \A s \in Subs :
       WF_vars(ListenerRecv(s)) /\ WF_vars(ListenerSend(s)) /\ WF_vars(ListenerClose(s))
  /\ \A i \in Insts :
       WF_vars(Watch(i)) /\ WF_vars(Backoff(i)) /\ WF_vars(Rearm(i))
  /\ WF_vars(CallerRecv)

FairSpec == Spec /\ Fairness

\* A reconnect closure that succeeds after at most MaxShort failures: the
\* attempts of a run in which no streak is longer than that.
AttemptShort(i) ==
  /\ Attempt(i)
  /\ eng'[i].fails <= MaxShort

\* One native error and the nil event: which error an unexpected close
\* carries makes no difference to what the tasks do next.
LiveEvents == {NilAmqp} \cup {e \in AmqpErrors : e.Code = 320}

\* The redial cycles alone (the caller called AutoRedial), short streaks.
NextLive ==
  \/ CallAutoRedial
  \/ \E s \in Insts : NativeClose(s)
  \/ \E s \in Insts, e \in LiveEvents : ListenerMeet(s, e)
  \/ \E s \in Insts : ListenerClose(s)
  \/ \E i \in Insts : Watch(i)
  \/ \E i \in Insts : Emit(i)
  \/ \E i \in Insts : Backoff(i)
  \/ \E i \in Insts : AttemptShort(i)
  \/ \E i \in Insts : Rearm(i)
  \/ \E i \in Insts : Signal(i)

\* Every goroutine is scheduled, the caller keeps receiving from outChan and
\* from done (the sends of lines 128 and 146 are taken), and conn.dialFn()
\* returns.
LiveFairness ==
  /\ \A s \in Insts : WF_vars(ListenerClose(s))
  /\ \A i \in Insts :
       /\ WF_vars(Watch(i)) /\ WF_vars(Emit(i)) /\ WF_vars(Backoff(i))
       /\ WF_vars(AttemptShort(i)) /\ WF_vars(Rearm(i)) /\ WF_vars(Signal(i))

LiveSpec == Init /\ [][NextLive]_vars /\ LiveFairness

\* The redial cycles on a library that may send several events on one close
\* stream before it closes it.
NextBurst ==
  \/ CallAutoRedial
  \/ \E s \in Insts : NativeClose(s)
  \/ \E s \in Insts, e \in NativeEvents : ListenerMeetMany(s, e)
  \/ \E s \in Insts : ListenerClose(s)
  \/ \E i \in Insts : Watch(i)
  \/ \E i \in Insts : Emit(i)
  \/ \E i \in Insts : Backoff(i)
  \/ \E i \in Insts : AttemptShort(i)
  \/ \E i \in Insts : Rearm(i)
  \/ \E i \in Insts : Signal(i)

BurstSpec == Init /\ [][NextBurst]_vars

\* ---------------------------------------------------------------- claims

\* C1: a task whose first value from its close subscription is the graceful
\* sentinel (a nil event, or the zero value of the closed channel) has
\* terminated, and in its cycle nothing was sent on outChan, nothing on done,
\* dialFn was not invoked, no watch was re-armed and the attempt counter still
\* has the value it had when the task was started.
C1_GracefulCloseSilent ==
  \A i \in Insts :
    (eng[i].pc \notin {"none", "watch"} /\ eng[i].err = NilError) =>
      /\ eng[i].pc = "exit"
      /\ eng[i].emits = 0 /\ eng[i].outs = {}
      /\ eng[i].dones = 0
      /\ eng[i].dials = 0
      /\ attempts = eng[i].att0
      /\ (i + 1 \in Insts => eng[i + 1].pc = "none")

\* The second cycle ends gracefully, on a native stream closed without an
\* event, with a counter left above 0 by the first cycle.
C1_Witness ==
  /\ eng[2].pc = "exit" /\ eng[2].err = NilError
  /\ sub[2].read = <<>> /\ sub[2].cClosed
  /\ attempts > 0

\* C2: every invocation of dialFn is preceded by a completed send on outChan
\* for that attempt (the sends of a task are one ahead of its dials exactly
\* between the send and the dial), and while a task is at the send and the
\* caller does not receive, the task stays there, dialFn is not invoked and
\* the attempt counter does not change.
C2_EmissionPrecedesDial ==
  /\ [](\A i \in Insts :
          /\ eng[i].pc \in {"backoff", "dial"} => eng[i].emits = eng[i].dials + 1
          /\ eng[i].pc \notin {"backoff", "dial"} => eng[i].emits = eng[i].dials)
  /\ [][\A i \in Insts :
          (eng[i].pc = "emit" /\ eng'[i].emits = eng[i].emits) =>
             /\ eng'[i].pc = "emit"
             /\ eng'[i].dials = eng[i].dials
             /\ ndials' = ndials
             /\ attempts' = attempts]_vars

\* A task blocked at its third send, after two sends and two failed dials.
C2_Witness ==
  eng[1].pc = "emit" /\ eng[1].emits = 2 /\ eng[1].dials = 2 /\ eng[1].fails = 2

\* C3: only true is ever sent on done; a task sends on done at most once and
\* only after its own successful dialFn; a task that has returned after a
\* success has sent exactly once; the sends on done are as many as the tasks
\* that have signalled, so never more than the successful reconnects.
C3_DoneOncePerSuccess ==
  /\ \A k \in 1..Len(caller.done) : caller.done[k] = TRUE
  /\ \A i \in Insts :
       /\ eng[i].oks <= 1
       /\ eng[i].dones <= eng[i].oks
       /\ eng[i].pc \in {"rearm", "signal"} => (eng[i].oks = 1 /\ eng[i].dones = 0)
       /\ eng[i].pc = "exit" => eng[i].dones = eng[i].oks
       /\ eng[i].pc \in {"none", "watch", "emit", "backoff", "dial"} => eng[i].oks = 0
  /\ Len(caller.done) = Cardinality({i \in Insts : eng[i].dones = 1})
  /\ Len(caller.done) <= Cardinality({i \in Insts : eng[i].oks = 1})

\* true was received on done after a reconnect that succeeded after 3 failures.
C3_Witness ==
  /\ caller.done = <<TRUE>>
  /\ eng[1].pc = "exit" /\ eng[1].fails = 3 /\ eng[1].oks = 1

\* C4: a task that has reconnected arms the next watch before it signals:
\* once it is at (or past) the send on done, the next AutoRedial invocation
\* exists, subscribed with an unbuffered channel to a handle newer than the
\* task's own; the re-arm step subscribes to the handle the successful dial
\* stored and sends nothing on done; the send of true on done is the task's
\* last step before it returns.
C4_RearmThenSignal ==
  /\ [](\A i \in Insts :
          (eng[i].oks = 1 /\ eng[i].pc \in {"signal", "exit"}) =>
             /\ i + 1 \in Insts
             /\ eng[i + 1].pc # "none"
             /\ sub[i + 1].on /\ sub[i + 1].cap = 0
             /\ sub[i + 1].handle > sub[i].handle)
  /\ [][\A i \in Insts :
          /\ (eng[i].pc = "rearm" /\ eng'[i].pc # "rearm") =>
                /\ eng'[i].pc = "signal"
                /\ i + 1 \in Insts
                /\ eng[i + 1].pc = "none" /\ eng'[i + 1].pc = "watch"
                /\ sub'[i + 1].on /\ sub'[i + 1].lpc = "range"
                /\ sub'[i + 1].handle = handle.id /\ handle.live
                /\ caller'.done = caller.done
          /\ (eng[i].pc = "signal" /\ eng'[i].pc # "signal") =>
                /\ eng'[i].pc = "exit"
                /\ caller'.done = Append(caller.done, TRUE)]_vars

\* The re-armed watch has detected an unexpected close of the reconnected
\* connection and runs its own retry cycle, the first task still at the send
\* on done.
C4_Witness ==
  /\ eng[1].pc = "signal"
  /\ eng[2].pc = "dial" /\ eng[2].err # NilError /\ eng[2].fails = 1
  /\ sub[2].handle = 2

\* C5: every wait of every task is between 0 and 60, and the wait before an
\* attempt is the value the attempt counter has at the dial (the reset
\* applied); a task has slept once per dial.
C5_BoundedBackoff ==
  \A i \in Insts :
    /\ \A k \in 1..Len(eng[i].waits) : eng[i].waits[k] \in 0..60
    /\ eng[i].pc = "dial" =>
         /\ Len(eng[i].waits) = eng[i].dials + 1
         /\ eng[i].waits[Len(eng[i].waits)] = attempts
    /\ eng[i].pc # "dial" => Len(eng[i].waits) = eng[i].dials

\* The 62nd attempt of a streak: the counter 61 was reset, the wait is 0,
\* after the wait of 60 of the 61st attempt.
C5_Witness ==
  /\ eng[1].pc = "dial" /\ eng[1].fails = 61
  /\ Len(eng[1].waits) = 62
  /\ eng[1].waits[61] = 60 /\ eng[1].waits[62] = 0
  /\ attempts = 0

\* C6: the documented redial strategy, from a freshly dialed connection: the
\* wait before an attempt is the number of attempts so far, zeroed when it
\* reaches 60, so that the waits run 0, 1, ..., 59, 0, 1, ... and 60 is never
\* a wait.
C6_DocumentedStrategy ==
  \A k \in 1..Len(eng[1].waits) : eng[1].waits[k] = (k - 1) % 60

\* C7 as stated: a cycle that fails k times and then succeeds has sent the
\* error on outChan exactly k times and has waited k times.
C7_EmitsEqualFailures ==
  \A i \in Insts :
    eng[i].oks = 1 => (eng[i].emits = eng[i].fails /\ Len(eng[i].waits) = eng[i].fails)

\* C7 (amended): a cycle that fails k times and then succeeds has sent the
\* original error on outChan exactly k + 1 times, once before each of its
\* k + 1 attempts, and nothing else; the waits of a cycle that starts with the
\* counter at 0 are 0, 1, ..., k as long as k <= 60; true is sent on done
\* only after the success, and once by the time the task has returned.
C7_EmissionsPerCycle ==
  \A i \in Insts :
    /\ eng[i].oks = 1 =>
         /\ eng[i].emits = eng[i].fails + 1
         /\ Len(eng[i].waits) = eng[i].fails + 1
         /\ eng[i].outs = {eng[i].err}
         /\ eng[i].pc = "exit" => eng[i].dones = 1
    /\ eng[i].oks = 0 => eng[i].dones = 0
    /\ eng[i].att0 = 0 =>
         \A k \in 1..Len(eng[i].waits) : k <= 61 => eng[i].waits[k] = k - 1

\* The stated scenario: three failures, then a success.
C7_Witness ==
  /\ eng[1].oks = 1 /\ eng[1].fails = 3
  /\ eng[1].emits = 4
  /\ eng[1].waits = <<0, 1, 2, 3>>
  /\ caller.done = <<TRUE>>

C9_BridgeSafe ==
  /\ \A s \in Subs :
       /\ sub[s].on <=> sub[s].lpc # "none"
       /\ sub[s].read \o sub[s].natBuf = sub[s].sent
       /\ Len(sub[s].sent) = sub[s].natSent
       /\ Len(sub[s].fwd) <= Len(sub[s].read)
       /\ Len(sub[s].read) <= Len(sub[s].fwd) + 1
       /\ sub[s].lpc = "send" <=> Len(sub[s].read) = Len(sub[s].fwd) + 1
       /\ \A k \in 1..Len(sub[s].fwd) : sub[s].fwd[k] = Translate(sub[s].read[k])
       /\ sub[s].closes <= 1
       /\ sub[s].cClosed <=> sub[s].closes = 1
       /\ sub[s].cClosed =>
            /\ sub[s].natClosed /\ sub[s].natBuf = <<>>
            /\ Len(sub[s].fwd) = Len(sub[s].sent)
            /\ sub[s].lpc = "done"
  /\ caller.ret = Direct <=> sub[Direct].on
  /\ caller.got \o sub[Direct].cBuf = sub[Direct].fwd
  /\ caller.sawClose => (sub[Direct].cClosed /\ Len(caller.got) = Len(sub[Direct].sent))

\* C9, with the progress of the bridge: the above always holds, and once the
\* native stream of a directly subscribed channel is closed, a caller that
\* keeps receiving gets to see c closed (by then it has received every event).
C9_NotifyCloseBridge ==
  /\ []C9_BridgeSafe
  /\ sub[Direct].natClosed ~> caller.sawClose

\* A buffered channel: two different events were received in order, then the
\* close.
C9_Witness ==
  /\ sub[Direct].cap = 1
  /\ caller.sawClose
  /\ Len(caller.got) = 2 /\ caller.got[1] # caller.got[2]
  /\ caller.got[1] = NilError

\* C10: the value the listener holds or has delivered for a native event is
\* nil when the event is nil, and otherwise a non-nil error with the event's
\* code, reason, server flag and recover flag.
C10_Translation ==
  \A s \in Subs :
    \A k \in 1..Len(sub[s].read) :
      LET e == sub[s].read[k]
          v == IF k <= Len(sub[s].fwd) THEN sub[s].fwd[k] ELSE sub[s].ne
      IN /\ e = NilAmqp => v = NilError
         /\ e # NilAmqp =>
              /\ v # NilError
              /\ v.code = e.Code /\ v.reason = e.Reason
              /\ v.server = e.Server /\ v.recover = e.Recover

\* A nil event and an event whose server and recover flags differ, both
\* translated and delivered.
C10_Witness ==
  /\ Len(sub[Direct].fwd) = 2
  /\ sub[Direct].read[1] = NilAmqp
  /\ sub[Direct].read[2] \in AmqpErrors /\ sub[Direct].read[2].Code = 504
  /\ sub[Direct].fwd[2].recover

\* C11: a task that has started retrying never abandons the retry loop: it
\* leaves the states of the loop (send on outChan, wait, dial) only by a dial
\* that succeeded, a failed dial puts it back at the send on outChan, a task
\* that has returned after an unexpected close has had its one successful
\* dial, and (the caller receiving from outChan) a task at the send that
\* follows its n-th failure goes on to the point of attempt n+1.
C11_UnboundedRetries ==
  /\ [](\A i \in Insts :
          (eng[i].pc \in {"rearm", "signal", "exit"} /\ eng[i].err # NilError) =>
             eng[i].oks = 1)
  /\ [][\A i \in Insts :
          /\ (eng[i].pc \in {"emit", "backoff", "dial"}
                /\ eng'[i].pc \notin {"emit", "backoff", "dial"}) =>
               /\ eng'[i].pc = "rearm"
               /\ eng'[i].connErr = NoError
               /\ eng'[i].oks = eng[i].oks + 1
          /\ eng'[i].fails = eng[i].fails + 1 => eng'[i].pc = "emit"]_vars
  /\ \A i \in Insts : (eng[i].pc = "emit") ~> (eng[i].pc = "dial")

\* After two failures the task is at its third attempt.
C11_Witness ==
  eng[1].pc = "dial" /\ eng[1].fails = 2 /\ eng[1].dials = 2 /\ Len(eng[1].waits) = 3

\* C12: in every reachable state, the states between the increment of a
\* failed attempt and the next reset check included, the attempt counter is
\* within 0..60.
C12_CounterRange == attempts \in 0..ResetAbove

C15_SingleActiveLoop ==
  /\ [](\A i \in Insts :
          eng[i].pc \in {"watch", "emit", "backoff", "dial", "rearm"} =>
             /\ \A j \in Insts : j < i => eng[j].pc \in {"signal", "exit"}
             /\ \A j \in Insts : j > i => eng[j].pc = "none")
  /\ [][attempts' # attempts =>
          \E i \in Insts :
             /\ eng[i].pc \in {"backoff", "dial"}
             /\ eng'[i] # eng[i]
             /\ \A j \in Insts : j # i =>
                  /\ eng'[j] = eng[j]
                  /\ eng[j].pc \in {"none", "signal", "exit"}]_vars

\* The task of the first cycle still has its send on done pending while the
\* task of the second cycle is in its wait after a failed attempt.
C15_Witness ==
  /\ eng[1].pc = "signal"
  /\ eng[2].pc = "backoff" /\ eng[2].fails = 1 /\ eng[2].emits = 2

\* C16: a failed invocation of the reconnect closure changes the attempt
\* counter (by +1) and nothing else of the connection: the handle is left as
\* it was, and is never absent.
C16_FailedAttemptFrame ==
  /\ [][\A i \in Insts :
          eng'[i].fails = eng[i].fails + 1 =>
             /\ attempts' = attempts + 1
             /\ handle' = handle]_vars
  /\ [](handle # NilConn)

C18_NoLeakedTasks ==
  \A i \in Insts :
    eng[i].pc \notin {"none", "watch"} => sub[i].lpc # "send"

\* C19: under weak fairness of every task, the caller receiving from outChan
\* and done, and the reconnect closure succeeding after finitely many
\* failures (every cycle but the last one the bound allows), an unexpected
\* close that the listener has picked up is eventually followed by the send
\* of true on done of that cycle being taken.
C19_DoneFollowsClose ==
  \A i \in 1..(MaxInst - 1) :
    (eng[i].pc = "watch" /\ sub[i].lpc = "send" /\ sub[i].ne # NilError)
      ~> (eng[i].dones = 1 /\ Len(caller.done) >= i)

\* The caller has received true on done after a cycle with two failures.
C19_Witness ==
  /\ eng[1].pc = "exit" /\ eng[1].dones = 1 /\ eng[1].fails = 2
  /\ caller.done = <<TRUE>>

\* C20: a send on done that the caller has not taken does not hold up the
\* next cycle: while a task is blocked at its send on done, the re-armed task
\* exists and each step it is at (taking the close event, the send on
\* outChan, the wait, the dial) is possible.
C20_DoneDoesNotBlock ==
  \A i \in Insts :
    (eng[i].pc = "signal" /\ i + 1 \in Insts) =>
       /\ eng[i + 1].pc # "none"
       /\ (eng[i + 1].pc = "watch" /\ ChanRecv(sub[i + 1]) # {}) =>
             ENABLED Watch(i + 1)
       /\ eng[i + 1].pc = "emit" => ENABLED Emit(i + 1)
       /\ eng[i + 1].pc = "backoff" => ENABLED Backoff(i + 1)
       /\ (eng[i + 1].pc = "dial" /\ MayFail(i + 1)) => ENABLED Attempt(i + 1)

\* The error of the second cycle has been received on outChan, and a
\* reconnect attempted, before anything was received on done.
C20_Witness ==
  /\ eng[1].pc = "signal" /\ caller.done = <<>>
  /\ eng[2].emits = 1 /\ eng[2].dials = 1 /\ eng[2].err # NilError

====
